---- MODULE Spec2Model ----
(***************************************************************************)
(* Conway's Game of Life on a sparse unbounded board (game-of-life-rs).    *)
(*                                                                         *)
(* These state machines share this module:                                 *)
(*   Spec       a GameOfLife session: construction (default, from an array *)
(*              of points, from text) followed by step() calls.  step() is *)
(*              modelled loop iteration by loop iteration, because the     *)
(*              three loops of step() run over HashSets whose iteration    *)
(*              order is unspecified: every order is a behaviour.          *)
(*   SpecFair   Spec, and a step() that has been called keeps running.     *)
(*   SpecBoard  a Board with its read-only operations: query() and the     *)
(*              Neighbors iterator, one next() call per action.            *)
(*   SpecEdit   a session whose board is edited cell by cell (birth_cell,  *)
(*              kill_cell, toggle_cell, clear) between step() calls.       *)
(*   SpecWindow a Board seen through window() and drawn by BoardWidget, in  *)
(*              both builds, the limits of i64 and u16 among the inputs.   *)
(*   SpecParse  a session that is given a text with board_from_str(),      *)
(*              between step() calls.                                      *)
(*   SpecEdge   the Neighbors iterator and step() on boards whose cells    *)
(*              lie at the limits of the coordinates, in a build that      *)
(*              checks integer overflow and in one that wraps.             *)
(*   SpecLocal  sessions of step() calls far from the limits and at them,  *)
(*              in both builds: how far from the live cells a step births. *)
(*   SpecHint   the Neighbors iterator with size_hint() asked between the  *)
(*              next() calls.                                              *)
(*   SpecLines  board_from_str() on texts of more lines than the u16 line  *)
(*              index of its error counts (the width is drawn in).         *)
(*   SpecGen    sessions of more step() calls than the u32 generation      *)
(*              counts (the width is drawn in), in both builds.            *)
(*   SpecApp    the application of main.rs: one action per iteration of    *)
(*              its loop (a timeout of poll, a key, another event).        *)
(*   SpecProgram Program::run: the event loop and the producer thread,     *)
(*              interleaved step by step.                                  *)
(***************************************************************************)
EXTENDS Integers, Sequences, FiniteSets, Bags, TLC

\* ------------------------------------------------------------------ bounds
\* Most live cells of a board given to a constructor.
MaxLive == 5
\* Most step() calls of a session.
MaxGen == 2
\* Most live cells of a board whose step() is followed to its return.
MaxFairLive == 3
\* Most characters of a text given to the parser.
MaxText == 4
\* Most next() calls made on an exhausted Neighbors iterator.
MaxExtraNext == 1
\* How far from the window around (0,0) the second window lies (to the right
\* and below).
Far == 5

\* Most operations (edits and steps) of a session whose board is edited.
MaxOps == 3
\* Most live cells of the board such a session starts with.
MaxEditLive == 2

\* Widest and highest rectangle asked of window() and drawn.
MaxSide == 3

\* Most live cells of a board at the limits of the coordinates.
MaxEdgeLive == 3
\* The width in bits of a coordinate in the model.  Point.x and Point.y are
\* i64; the model checker's integers are narrower, so the limits are drawn
\* closer: the windows of the constructors and what step() births around
\* them stay far inside.
I64Bits == 6

I64Min == -(2 ^ (I64Bits - 1))

I64Max == 2 ^ (I64Bits - 1) - 1

InI64(n) == I64Min <= n /\ n <= I64Max

\* What a build without overflow checks keeps of a sum or a difference.
WrapI64(n) == ((n - I64Min) % (2 ^ I64Bits)) + I64Min

\* The width in bits, in the model, of the line index of a parse failure.
\* InvalidBoardChar.line is u16; the width is drawn in so that a text can have
\* more lines than the index counts: the texts of the parser (MaxText
\* characters) stay within it.
LineBits == 2

\* `y as u16`: the low bits of the index.
AsU16(y) == y % (2 ^ LineBits)

\* The width in bits, in the model, of the generation counter (u32 in the
\* code): drawn in so that a session can make more steps than it counts.  The
\* sessions of MaxGen steps and of MaxOps operations stay within it.
GenerationBits == 2

U32Max == 2 ^ GenerationBits - 1

\* Coordinates of the cells a constructor may be given (step() births cells
\* outside of it freely).
Coords == -1 .. 1

\* ------------------------------------------------------------------- Point
Point(x, y) == [x |-> x, y |-> y]

Window == {Point(x, y) : x \in Coords, y \in Coords}

\* -------------------------------------------------------------------- Cell
Dead(pos) == [tag |-> "Dead", pos |-> pos]

Alive(pos) == [tag |-> "Alive", pos |-> pos]

\* Option<T>
None == [some |-> FALSE]

Some(v) == [some |-> TRUE, val |-> v]

\* ------------------------------------------------------------------- Board
\* A Board is the set of its live points (Board.board: HashSet<Point>).
BoardDefault == {}

BoardFromArray(value) == {value[i] : i \in DOMAIN value}

\* Mutant: the arms of the match are swapped.
querySwapped(b, pos) == IF pos \in b THEN Dead(pos) ELSE Alive(pos)

query(b, pos) == IF pos \in b THEN Alive(pos) ELSE Dead(pos)

\* Mutant: the insert removes a point that is there.
birth_cellFlip(b, p) == IF p \in b THEN b \ {p} ELSE b \cup {p}

birth_cell(b, p) == b \cup {p}

\* Mutant: the removal of a live point empties the board.
kill_cellAll(b, p) == IF p \in b THEN {} ELSE b

kill_cell(b, p) == b \ {p}

\* Mutant: toggle_cell() never removes.
toggle_cellInsert(b, p) == birth_cell(b, p)

toggle_cell(b, p) == IF p \in b THEN kill_cell(b, p) ELSE birth_cell(b, p)

\* Mutant: clear() does nothing.
clearNothing(b) == b

\* self.board.clear()
clear(b) == {}

\* iter(): the items as a bag, each live point once (the order is the
\* HashSet's and unspecified).
BoardIter(b) == [p \in b |-> 1]

\* `as u16` and the sums of u16 in a build without overflow checks keep the
\* low 16 bits.
WrapU16(n) == n % 65536

InU16(n) == 0 <= n /\ n < 65536

\* Mutant: the right and upper bounds are inclusive.
WindowItemInclusive(p, point, width, height) ==
    LET dx == WrapI64(p.x - point.x)
        dy == WrapI64(p.y - point.y)
    IN  [item |-> IF dx >= 0 /\ dx <= width /\ dy >= 0 /\ dy <= height
                  THEN Some([p |-> p, dx |-> WrapU16(dx), dy |-> WrapU16(dy)])
                  ELSE None,
         overflow |-> ~InI64(p.x - point.x) \/ ~InI64(p.y - point.y)]

\* The closure of window()'s filter_map: what it returns, and whether one
\* of its two subtractions overflows.  When one does, a build with overflow
\* checks panics in place of this, and a build without them goes on with
\* the wrapped difference.
WindowItem(p, point, width, height) ==
    LET dx == WrapI64(p.x - point.x)
        dy == WrapI64(p.y - point.y)
    IN  [item |-> IF dx >= 0 /\ dx < width /\ dy >= 0 /\ dy < height
                  THEN Some([p |-> p, dx |-> WrapU16(dx), dy |-> WrapU16(dy)])
                  ELSE None,
         overflow |-> ~InI64(p.x - point.x) \/ ~InI64(p.y - point.y)]

\* filter_map over the points in the order they are handed.  items: the
\* items as a bag, in a build without overflow checks; overflow: the closure
\* overflows on some point; before: the items that came before the first
\* point it overflows on (what a build with overflow checks has yielded
\* when it panics).
RECURSIVE FilterMapWindow(_, _, _, _)
FilterMapWindow(cells, point, width, height) ==
    IF cells = <<>> THEN [items |-> EmptyBag, overflow |-> FALSE, before |-> EmptyBag]
    ELSE LET r == WindowItem(Head(cells), point, width, height)
             rest == FilterMapWindow(Tail(cells), point, width, height)
             with(bag) == IF r.item.some THEN SetToBag({r.item.val}) (+) bag ELSE bag
         IN  [items    |-> with(rest.items),
              overflow |-> r.overflow \/ rest.overflow,
              before   |-> IF r.overflow THEN EmptyBag ELSE with(rest.before)]

\* --------------------------------------------------------------- Neighbors
\* Neighbors { board, pos, which }: the board is a reference, so the iterator
\* is the pair (pos, which) and next() reads the board it is handed.
NeighborsNew(pos) == [pos |-> pos, which |-> 0]

neighbors(p) == NeighborsNew(p)

\* Mutant: the neighbours are two cells away.
NeighborPosTwoAway(pos, which) ==
    LET x == pos.x
        y == pos.y
    IN  CASE which = 0 -> Point(x + 2, y)
          [] which = 1 -> Point(x + 2, y + 2)
          [] which = 2 -> Point(x, y + 2)
          [] which = 3 -> Point(x - 2, y + 2)
          [] which = 4 -> Point(x - 2, y)
          [] which = 5 -> Point(x - 2, y - 2)
          [] which = 6 -> Point(x, y - 2)
          [] which = 7 -> Point(x + 2, y - 2)

\* Mutant: the rotation is clockwise (up and down are swapped).
NeighborPosClockwise(pos, which) ==
    LET x == pos.x
        y == pos.y
    IN  CASE which = 0 -> Point(x + 1, y)
          [] which = 1 -> Point(x + 1, y - 1)
          [] which = 2 -> Point(x, y - 1)
          [] which = 3 -> Point(x - 1, y - 1)
          [] which = 4 -> Point(x - 1, y)
          [] which = 5 -> Point(x - 1, y + 1)
          [] which = 6 -> Point(x, y + 1)
          [] which = 7 -> Point(x + 1, y + 1)

\* The match of next(): the position for which in 0..7.
NeighborPos(pos, which) ==
    LET x == pos.x
        y == pos.y
    IN  CASE which = 0 -> Point(x + 1, y)
          [] which = 1 -> Point(x + 1, y + 1)
          [] which = 2 -> Point(x, y + 1)
          [] which = 3 -> Point(x - 1, y + 1)
          [] which = 4 -> Point(x - 1, y)
          [] which = 5 -> Point(x - 1, y - 1)
          [] which = 6 -> Point(x, y - 1)
          [] which = 7 -> Point(x + 1, y - 1)

\* Mutant: the sums saturate, nothing overflows.
NeighborsNextSaturating(b, it) ==
    IF it.which \in 0 .. 7
    THEN LET pos == NeighborPos(it.pos, it.which)
             sat(n) == IF n > I64Max THEN I64Max ELSE IF n < I64Min THEN I64Min ELSE n
         IN  [item |-> Some(query(b, Point(sat(pos.x), sat(pos.y)))),
              it   |-> [it EXCEPT !.which = @ + 1],
              overflow |-> FALSE]
    ELSE [item |-> None, it |-> it, overflow |-> FALSE]

\* next(): the item returned and the iterator after the call.  When a sum
\* overflows, a build with overflow checks panics in place of this, and a
\* build without them goes on with the wrapped coordinate.
NeighborsNext(b, it) ==
    IF it.which \in 0 .. 7
    THEN LET pos == NeighborPos(it.pos, it.which)
             over == ~InI64(pos.x) \/ ~InI64(pos.y)
         IN  [item |-> Some(query(b, IF over THEN Point(WrapI64(pos.x), WrapI64(pos.y))
                                            ELSE pos)),
              it   |-> [it EXCEPT !.which = @ + 1],
              overflow |-> over]
    ELSE [item |-> None, it |-> it, overflow |-> FALSE]

\* Mutant: the length of a whole sequence, whatever has been consumed.
size_hintWhole(it) == <<8, Some(8)>>

size_hint(it) == LET len == 8 - it.which IN <<len, Some(len)>>

\* A for loop over (or a consuming adaptor of) the iterator: next() until None.
\* r is the result of the one next() call of an iteration.
RECURSIVE Drain(_, _)
Drain(b, it) ==
    CHOOSE cells \in {IF r.item.some THEN <<r.item.val>> \o Drain(b, r.it) ELSE <<>> :
                         r \in {NeighborsNext(b, it)}} : TRUE

\* Some next() call of that loop overflows.
RECURSIVE DrainOverflows(_, _)
DrainOverflows(b, it) ==
    \E r \in {NeighborsNext(b, it)} : r.item.some /\ (r.overflow \/ DrainOverflows(b, r.it))

\* .filter(|c| matches!(c, Cell::Alive(_))).count()
CountAlive(cells) == Len(SelectSeq(cells, LAMBDA c : c.tag = "Alive"))

\* ------------------------------------------------------------------ parser
Alphabet == {".", "x", "?", "\n", "\r"}

\* A text is a sequence of characters.
Texts == UNION {[1 .. n -> Alphabet] : n \in 0 .. MaxText}

\* str::lines(): a line ends at "\n" (a "\r" before it is dropped too); a last
\* line without "\n" is a line when it is not empty.
StripCR(line) ==
    IF line # <<>> /\ line[Len(line)] = "\r" THEN SubSeq(line, 1, Len(line) - 1) ELSE line

RECURSIVE SplitLines(_, _)
SplitLines(s, cur) ==
    IF s = <<>> THEN (IF cur = <<>> THEN <<>> ELSE <<cur>>)
    ELSE IF Head(s) = "\n" THEN <<StripCR(cur)>> \o SplitLines(Tail(s), <<>>)
    ELSE SplitLines(Tail(s), Append(cur, Head(s)))

Lines(s) == SplitLines(s, <<>>)

\* Mutant: the lines are not reversed.
RevNot(q) == q

Rev(q) == [i \in 1 .. Len(q) |-> q[Len(q) + 1 - i]]

InvalidBoardChar(c, line, s) == [ok |-> FALSE, c |-> c, line |-> line, s |-> s]

Ok(b) == [ok |-> TRUE, board |-> b]

\* Mutant: a character that is neither '.' nor 'x' is skipped.
RECURSIVE ParseLineLenient(_, _, _, _, _)
ParseLineLenient(s, line, x, y, b) ==
    IF x >= Len(line) THEN Ok(b)
    ELSE LET char == line[x + 1]
         IN  CASE char = "x" -> ParseLineLenient(s, line, x + 1, y, birth_cell(b, Point(x, y)))
               [] OTHER      -> ParseLineLenient(s, line, x + 1, y, b)

\* The inner loop of from_str from column x (0-based) of a line on.
RECURSIVE ParseLine(_, _, _, _, _)
ParseLine(s, line, x, y, b) ==
    IF x >= Len(line) THEN Ok(b)
    ELSE LET char == line[x + 1]
         IN  CASE char = "." -> ParseLine(s, line, x + 1, y, b)
               [] char = "x" -> ParseLine(s, line, x + 1, y, birth_cell(b, Point(x, y)))
               [] OTHER      -> InvalidBoardChar(char, AsU16(y), s)

\* The outer loop of from_str from the y-th line of the reversed lines on.
RECURSIVE ParseLines(_, _, _, _)
ParseLines(s, rlines, y, b) ==
    IF y >= Len(rlines) THEN Ok(b)
    ELSE LET r == ParseLine(s, rlines[y + 1], 0, y, b)
         IN  IF r.ok THEN ParseLines(s, rlines, y + 1, r.board) ELSE r

BoardFromStr(s) == ParseLines(s, Rev(Lines(s)), 0, BoardDefault)

\* -------------------------------------------------------------- GameOfLife
GameOfLifeDefault ==
    [board |-> BoardDefault, killed_cells |-> {}, birthed_cells |-> {}, generation |-> 0]

GameOfLifeFromArray(value) == [GameOfLifeDefault EXCEPT !.board = BoardFromArray(value)]

GameOfLifeFromStr(s) ==
    LET r == BoardFromStr(s)
    IN  IF r.ok THEN [ok |-> TRUE, game |-> [GameOfLifeDefault EXCEPT !.board = r.board]]
        ELSE r

\* Mutant: the parsed cells are added to the board.
board_from_strMerge(g, s) ==
    LET r == BoardFromStr(s)
    IN  IF r.ok THEN [ok |-> TRUE, game |-> [g EXCEPT !.board = @ \cup r.board]]
        ELSE [ok |-> FALSE, game |-> g, err |-> r]

\* self.board = s.parse()?; Ok(())
board_from_str(g, s) ==
    LET r == BoardFromStr(s)
    IN  IF r.ok THEN [ok |-> TRUE, game |-> [g EXCEPT !.board = r.board]]
        ELSE [ok |-> FALSE, game |-> g, err |-> r]

\* Rule 4: the dead cell at pos has exactly three live neighbours.
Rule4(b, pos) == CountAlive(Drain(b, neighbors(pos))) = 3

\* Mutant: the birth test is made for live neighbours too.
IsDeadOrAlive(cell) == cell.tag \in {"Dead", "Alive"}

\* The Cell::Dead arm of the match on a neighbour.
IsDead(cell) == cell.tag = "Dead"

\* Mutant: overpopulation forgotten (0 | 1).
ShouldKillUnderpopulated(num_alive) == num_alive = 0 \/ num_alive = 1

\* Mutant: a single neighbour is enough to live (0 | 4..).
ShouldKillAlone(num_alive) == num_alive = 0 \/ num_alive >= 4

\* Mutant: three neighbours are already too many (0 | 1 | 3..).
ShouldKillFromThree(num_alive) == num_alive = 0 \/ num_alive = 1 \/ num_alive >= 3

\* Rules 1 and 2: the arm 0 | 1 | 4.. of the match on num_alive.
ShouldKill(num_alive) == num_alive = 0 \/ num_alive = 1 \/ num_alive >= 4

\* A coordinate of pos is less than 2 from the smallest or the largest i64.
NearI64Limit(pos) ==
    \/ pos.x < I64Min + 2 \/ pos.x > I64Max - 2
    \/ pos.y < I64Min + 2 \/ pos.y > I64Max - 2

\* Some next() call of one iteration of the scan loop overflows: in the loop
\* over the neighbours of pos or in the count of the neighbours of a dead
\* one.  (The calls add 1 to or take 1 from the coordinates of pos, twice at
\* most: away from the limits there is nothing to enumerate.)
ScanOverflows(g, pos) ==
    /\ NearI64Limit(pos)
    /\ \/ DrainOverflows(g.board, neighbors(pos))
       \/ LET cells == Drain(g.board, neighbors(pos))
          IN  \E j \in DOMAIN cells :
                 IsDead(cells[j]) /\ DrainOverflows(g.board, neighbors(cells[j].pos))

\* What one iteration of the scan loop decides for the live cell pos: the dead
\* neighbours to birth and whether pos is to be killed; and whether a next()
\* call of the iteration overflowed.
ScanDecision(g, pos) ==
    CHOOSE d \in {[born |-> {cells[i].pos : i \in {j \in DOMAIN cells :
                                  IsDead(cells[j]) /\ Rule4(g.board, cells[j].pos)}},
                   kill |-> ShouldKill(CountAlive(cells)),
                   overflow |-> ScanOverflows(g, pos)] :
                       cells \in {Drain(g.board, neighbors(pos))}} : TRUE

\* Mutant: the cell is killed on the board as soon as the scan decides it.
ScanCellKillInPlace(g, pos, d) ==
    [g EXCEPT !.birthed_cells = @ \cup d.born,
              !.killed_cells = IF d.kill THEN @ \cup {pos} ELSE @,
              !.board = IF d.kill THEN kill_cell(@, pos) ELSE @]

\* Mutant: the cells are birthed on the board as soon as the scan decides it.
ScanCellBirthInPlace(g, pos, d) ==
    [g EXCEPT !.birthed_cells = @ \cup d.born,
              !.killed_cells = IF d.kill THEN @ \cup {pos} ELSE @,
              !.board = @ \cup d.born]

\* What one iteration of the scan loop of step() does with the decision d
\* made for the live cell pos.
ScanCell(g, pos, d) ==
    [g EXCEPT !.birthed_cells = @ \cup d.born,
              !.killed_cells = IF d.kill THEN @ \cup {pos} ELSE @]

\* The births an iteration of the scan loop has inserted when a next() call
\* of it panics: those found before that call.  it is the iterator over the
\* neighbours of the live cell, born the births inserted so far.  The count
\* of the neighbours of a dead cell comes before its insertion.
RECURSIVE BornBeforePanic(_, _, _)
BornBeforePanic(b, it, born) ==
    CHOOSE s \in {IF ~r.item.some \/ r.overflow THEN born
                  ELSE IF ~IsDead(r.item.val) THEN BornBeforePanic(b, r.it, born)
                  ELSE IF DrainOverflows(b, neighbors(r.item.val.pos)) THEN born
                  ELSE IF Rule4(b, r.item.val.pos)
                       THEN BornBeforePanic(b, r.it, born \cup {r.item.val.pos})
                       ELSE BornBeforePanic(b, r.it, born) :
                      r \in {NeighborsNext(b, it)}} : TRUE

\* One iteration of the scan loop for the live cell pos in which a next()
\* call panics: the births found before it are in birthed_cells, pos is not
\* in killed_cells (the match on num_alive is not reached).
ScanCellPanics(g, pos) ==
    [g EXCEPT !.birthed_cells = @ \cup BornBeforePanic(g.board, neighbors(pos), {})]

\* Mutant: the loop does not move on.
AdvanceNot(items, pos) == items

\* A for loop moves past the item pos: the items it has yet to visit.
Advance(items, pos) == items \ {pos}

\* Mutant: the working sets keep what the step before left in them.
StepClearKeep(g) == g

\* self.killed_cells.clear(); self.birthed_cells.clear();
StepClear(g) == [g EXCEPT !.killed_cells = {}, !.birthed_cells = {}]

\* Mutant: the generation is set, not counted.
StepFinishSetOne(g) == [g EXCEPT !.generation = 1]

\* Mutant: step() returns early on an empty board.
StepFinishUnlessEmpty(g) == IF g.board = {} THEN g ELSE [g EXCEPT !.generation = @ + 1]

\* self.generation += 1 overflows: a build with overflow checks panics here.
StepFinishOverflows(g) == g.generation = U32Max

\* self.generation += 1 (what a build without overflow checks keeps of it).
StepFinish(g) == [g EXCEPT !.generation = (@ + 1) % (2 ^ GenerationBits)]

\* An array holding the points of S, one each.
RECURSIVE ArrayOf(_)
ArrayOf(S) ==
    IF S = {} THEN <<>>
    ELSE LET p == CHOOSE q \in S : TRUE IN <<p>> \o ArrayOf(S \ {p})

\* The three loops of step() run to their end over the items in one order
\* (the order makes no difference to what they leave, see C2).
RECURSIVE ScanLoop(_, _)
ScanLoop(g, cells) ==
    IF cells = <<>> THEN g
    ELSE ScanLoop(ScanCell(g, Head(cells), ScanDecision(g, Head(cells))), Tail(cells))

RECURSIVE KillLoop(_, _)
KillLoop(g, cells) ==
    IF cells = <<>> THEN g
    ELSE KillLoop([g EXCEPT !.board = kill_cell(@, Head(cells))], Tail(cells))

RECURSIVE BirthLoop(_, _)
BirthLoop(g, cells) ==
    IF cells = <<>> THEN g
    ELSE BirthLoop([g EXCEPT !.board = birth_cell(@, Head(cells))], Tail(cells))

\* step() from call to return.
step(g) ==
    LET g0 == StepClear(g)
        g1 == ScanLoop(g0, ArrayOf(g0.board))
        g2 == KillLoop(g1, ArrayOf(g1.killed_cells))
        g3 == BirthLoop(g2, ArrayOf(g2.birthed_cells))
    IN  StepFinish(g3)

\* window(point, width, height), the points of the board handed in one
\* order.
window(b, point, width, height) == FilterMapWindow(ArrayOf(b), point, width, height)

\* What a HashSet may have handed to the closure of window(point, ..) when
\* the closure first overflows: some of the points it does not overflow on
\* (in an order that makes no difference to the bag of items), then a point
\* it overflows on.  (All the points when it overflows on none.)
HandedUntilOverflow(S, point) ==
    LET over == {p \in S : WindowItem(p, point, 0, 0).overflow}
    IN  IF over = {} THEN {ArrayOf(S)}
        ELSE {ArrayOf(T) \o <<q>> : T \in SUBSET (S \ over), q \in over}

\* A tui Rect.
Rect(x, y, width, height) == [x |-> x, y |-> y, width |-> width, height |-> height]

\* BoardWidget::render, the loops of the dots: the buffer cells given the
\* dot in a build without overflow checks (a range whose end wrapped is
\* empty), and whether a sum of u16 overflows; the sum of the inner range is
\* made when the outer range is not empty.  A build with overflow checks
\* panics at the sum, before any dot.
RenderDots(area) ==
    LET xs == area.x .. WrapU16(area.x + area.width) - 1
        ys == area.y .. WrapU16(area.y + area.height) - 1
    IN  [cells    |-> {<<x, y>> : x \in xs, y \in ys},
         overflow |-> \/ ~InU16(area.x + area.width)
                      \/ xs # {} /\ ~InU16(area.y + area.height)]

\* The corner handed to window(): self.origin - Point::new(width / 2,
\* height / 2), the difference wrapped.
RenderCorner(pan, area) ==
    Point(WrapI64(pan.x - area.width \div 2), WrapI64(pan.y - area.height \div 2))

RenderCornerOverflows(pan, area) ==
    ~InI64(pan.x - area.width \div 2) \/ ~InI64(pan.y - area.height \div 2)

\* The buffer cell of an item of window(): get_mut(area.x + dx, area.y + dy).
RenderCell(area, e) == <<WrapU16(area.x + e.dx), WrapU16(area.y + e.dy)>>

\* BoardWidget::render, the loop over window(), the points handed in the
\* order of cells.  cells: the buffer cells given the full block in a build
\* without overflow checks; overflow: a subtraction of i64 or a sum of u16
\* overflows; before: the cells given the full block before the first
\* overflow.
RenderFullOf(cells, pan, area) ==
    LET w == FilterMapWindow(cells, RenderCorner(pan, area), area.width, area.height)
    IN  [cells    |-> {RenderCell(area, e) : e \in BagToSet(w.items)},
         overflow |-> \/ RenderCornerOverflows(pan, area)
                      \/ w.overflow
                      \/ \E e \in BagToSet(w.items) :
                            ~InU16(area.x + e.dx) \/ ~InU16(area.y + e.dy),
         before   |-> IF RenderCornerOverflows(pan, area) THEN {}
                      ELSE {RenderCell(area, e) : e \in BagToSet(w.before)}]

RenderFull(b, pan, area) == RenderFullOf(ArrayOf(b), pan, area)

LiveSets == {S \in SUBSET Window : Cardinality(S) <= MaxLive}

\* The points of S moved by (dx, dy).
Shifted(S, dx, dy) == {Point(p.x + dx, p.y + dy) : p \in S}

\* A row of five cells: in two steps it spreads two cells up and down.
RowOfFive == {Point(x, 0) : x \in -2 .. 2}

\* The boards given to From<[Point; N]>: up to MaxLive cells of the window
\* around (0,0) or of the window around (Far, -Far), and the row of five.
ArrayInputs == LiveSets \cup {Shifted(S, Far, -Far) : S \in LiveSets} \cup {RowOfFive}

\* ------------------------------------------------------------------- state
VARIABLES
    board,          \* GameOfLife.board (Spec), the Board (SpecBoard)
    killed_cells,   \* GameOfLife.killed_cells
    birthed_cells,  \* GameOfLife.birthed_cells
    generation,     \* GameOfLife.generation
    pc,             \* where step() is: "idle" (not in step), "scan", "kill", "birth"
    todo,           \* the items the running loop of step() has yet to visit
    ctor,           \* history: how the session was constructed
    origin,         \* history: the board at construction
    before,         \* history: the board when the last step() was called
    nsteps,         \* history: the number of step() calls made
    iter,           \* SpecBoard: the Neighbors iterator, or None
    yielded,        \* SpecBoard: history, what the next() calls on iter returned
    last,           \* history: the last operation, its arguments and its result
    prev,           \* SpecEdit: history, the operation before the last
    nops,           \* SpecEdit: history, the number of operations made
    text,           \* SpecParse: the text given to the parser
    build,          \* whether the build checks integer overflow ("debug") or
                    \* wraps ("release")
    overflow,       \* history: whether a coordinate computation has overflowed
                    \* in the iterator (next) and in the last step() (step)
    app,            \* SpecApp: the App of main() but for its game (state, view,
                    \* origin, tick_rate), or None
    main,           \* SpecApp: where main() is ("none", "loop", "returned", "failed")
    loop,           \* SpecProgram: where Program::run is
    producer,       \* SpecProgram: where the thread of IoProducer is
    running,        \* SpecProgram: the AtomicBool of IoProducer
    channel,        \* SpecProgram: the events sent and not yet received
    receiver,       \* SpecProgram: whether the Receiver of the channel exists
    hitboxes        \* SpecProgram: Program.hitboxes, a map from Id to Rect

vars == <<board, killed_cells, birthed_cells, generation, pc, todo,
          ctor, origin, before, nsteps, iter, yielded, last,
          prev, nops, text, build, overflow,
          app, main, loop, producer, running, channel, receiver, hitboxes>>

gameVars == <<board, killed_cells, birthed_cells, generation, pc, todo,
              ctor, origin, before, nsteps>>

boardVars == <<iter, yielded, last>>

editVars == <<prev, nops, text>>

edgeVars == <<build, overflow>>

appVars == <<app, main>>

progVars == <<loop, producer, running, channel, receiver, hitboxes>>

\* main() has not been entered; Program::run has not been called.
NoApp == app = None /\ main = "none"

NoProgram ==
    /\ loop = "none"
    /\ producer = "none"
    /\ running = FALSE
    /\ channel = <<>>
    /\ receiver = FALSE
    /\ hitboxes = <<>>

\* No edit made, no text given, no overflow yet.
NoOverflow == [next |-> FALSE, step |-> FALSE]

Untouched ==
    /\ prev = None
    /\ nops = 0
    /\ text = <<>>
    /\ overflow = NoOverflow
    /\ NoApp
    /\ NoProgram

Game == [board |-> board, killed_cells |-> killed_cells,
         birthed_cells |-> birthed_cells, generation |-> generation]

\* ------------------------------------------------------- Spec: the session
Constructed(c, g) ==
    /\ ctor = c
    /\ board = g.board
    /\ killed_cells = g.killed_cells
    /\ birthed_cells = g.birthed_cells
    /\ generation = g.generation
    /\ origin = g.board
    /\ before = g.board
    /\ nsteps = 0
    /\ pc = "idle"
    /\ todo = {}
    /\ iter = None
    /\ yielded = <<>>
    /\ last = None
    /\ Untouched

\* (No coordinate of these sessions comes near the limits: the two builds
\* behave alike, one is followed.)
Init ==
    /\ \/ Constructed("default", GameOfLifeDefault)
       \/ \E S \in ArrayInputs : Constructed("from_array", GameOfLifeFromArray(ArrayOf(S)))
       \/ \E s \in Texts :
            LET r == GameOfLifeFromStr(s) IN r.ok /\ Constructed("from_str", r.game)
    /\ build = "debug"

\* step() is called: the working sets are cleared and the scan loop starts.
\* (step() takes &mut self: an iterator over the board has been dropped.)
StepBegin ==
    /\ pc = "idle"
    /\ generation < MaxGen
    /\ \E g \in {StepClear(Game)} :
         /\ killed_cells' = g.killed_cells
         /\ birthed_cells' = g.birthed_cells
    /\ todo' = board
    /\ pc' = "scan"
    /\ before' = board
    /\ nsteps' = nsteps + 1
    /\ iter' = None
    /\ yielded' = <<>>
    /\ overflow' = NoOverflow
    /\ UNCHANGED <<board, generation, ctor, origin, last, build>>
    /\ UNCHANGED editVars
    /\ UNCHANGED <<appVars, progVars>>

\* One iteration of `for pos in self.board.iter()`, in any order.  When a
\* coordinate overflows in it, the build with overflow checks panics, with
\* the births the iteration had found by then inserted, and the other goes
\* on with the wrapped coordinates.
StepScan ==
    /\ pc = "scan"
    /\ \E pos \in todo : \E d \in {ScanDecision(Game, pos)} :
         /\ overflow' = IF d.overflow THEN [overflow EXCEPT !.step = TRUE] ELSE overflow
         /\ IF d.overflow /\ build = "debug"
            THEN \E g \in {ScanCellPanics(Game, pos)} :
                 /\ birthed_cells' = g.birthed_cells
                 /\ pc' = "panicked"
                 /\ UNCHANGED <<board, killed_cells, todo>>
            ELSE \E g \in {ScanCell(Game, pos, d)} :
                 /\ board' = g.board
                 /\ killed_cells' = g.killed_cells
                 /\ birthed_cells' = g.birthed_cells
                 /\ todo' = Advance(todo, pos)
                 /\ pc' = pc
    /\ UNCHANGED <<generation, ctor, origin, before, nsteps, build>>
    /\ UNCHANGED <<boardVars, editVars>>
    /\ UNCHANGED <<appVars, progVars>>

\* The scan loop ends and `for pos in &self.killed_cells` starts.
StepScanEnd ==
    /\ pc = "scan"
    /\ todo = {}
    /\ pc' = "kill"
    /\ todo' = killed_cells
    /\ UNCHANGED <<board, killed_cells, birthed_cells, generation, ctor, origin, before, nsteps>>
    /\ UNCHANGED <<boardVars, editVars, edgeVars>>
    /\ UNCHANGED <<appVars, progVars>>

StepKill ==
    /\ pc = "kill"
    /\ \E pos \in todo :
         /\ board' = kill_cell(board, pos)
         /\ todo' = Advance(todo, pos)
    /\ UNCHANGED <<killed_cells, birthed_cells, generation, pc, ctor, origin, before, nsteps>>
    /\ UNCHANGED <<boardVars, editVars, edgeVars>>
    /\ UNCHANGED <<appVars, progVars>>

\* The kill loop ends and `for pos in &self.birthed_cells` starts.
StepKillEnd ==
    /\ pc = "kill"
    /\ todo = {}
    /\ pc' = "birth"
    /\ todo' = birthed_cells
    /\ UNCHANGED <<board, killed_cells, birthed_cells, generation, ctor, origin, before, nsteps>>
    /\ UNCHANGED <<boardVars, editVars, edgeVars>>
    /\ UNCHANGED <<appVars, progVars>>

StepBirth ==
    /\ pc = "birth"
    /\ \E pos \in todo :
         /\ board' = birth_cell(board, pos)
         /\ todo' = Advance(todo, pos)
    /\ UNCHANGED <<killed_cells, birthed_cells, generation, pc, ctor, origin, before, nsteps>>
    /\ UNCHANGED <<boardVars, editVars, edgeVars>>
    /\ UNCHANGED <<appVars, progVars>>

\* The birth loop ends, the generation is counted and step() returns.  When
\* the counter overflows, the build with overflow checks panics.
StepEnd ==
    /\ pc = "birth"
    /\ todo = {}
    /\ IF StepFinishOverflows(Game) /\ build = "debug"
       THEN /\ pc' = "panicked"
            /\ UNCHANGED <<board, killed_cells, birthed_cells, generation>>
       ELSE /\ \E g \in {StepFinish(Game)} :
                 /\ board' = g.board
                 /\ killed_cells' = g.killed_cells
                 /\ birthed_cells' = g.birthed_cells
                 /\ generation' = g.generation
            /\ pc' = "idle"
    /\ UNCHANGED <<todo, ctor, origin, before, nsteps>>
    /\ UNCHANGED <<boardVars, editVars, edgeVars>>
    /\ UNCHANGED <<appVars, progVars>>

Next ==
    \/ StepBegin
    \/ StepScan
    \/ StepScanEnd
    \/ StepKill
    \/ StepKillEnd
    \/ StepBirth
    \/ StepEnd

Spec == Init /\ [][Next]_vars

\* step() is a plain sequential function: once called, its loops run on (no
\* await, no lock, no other thread to wait for).
StepRuns ==
    \/ StepScan
    \/ StepScanEnd
    \/ StepKill
    \/ StepKillEnd
    \/ StepBirth
    \/ StepEnd

\* The boards the termination of step() is checked from: up to MaxFairLive
\* live cells of the window, given to From<[Point; N]>.
FairInputs == {S \in LiveSets : Cardinality(S) <= MaxFairLive}

InitFair ==
    /\ \E S \in FairInputs : Constructed("from_array", GameOfLifeFromArray(ArrayOf(S)))
    /\ build = "debug"

SpecFair == InitFair /\ [][Next]_vars /\ WF_vars(StepRuns)

\* ------------------------------------------ SpecGen: a long-running session
\* Sessions that make more steps than the generation counter counts, from an
\* empty board, a block (a still life) and a blinker, in both builds.
GenInputs ==
    { {},
      {Point(0, 0), Point(1, 0), Point(0, 1), Point(1, 1)},
      {Point(-1, 0), Point(0, 0), Point(1, 0)} }

MaxGenSteps == 2 ^ GenerationBits + 1

InitGen ==
    /\ \E S \in GenInputs : Constructed("from_array", GameOfLifeFromArray(ArrayOf(S)))
    /\ build \in {"debug", "release"}

\* step() is called; the generation at the call is noted.
StepBeginGen ==
    /\ pc = "idle"
    /\ nsteps < MaxGenSteps
    /\ \E g \in {StepClear(Game)} :
         /\ killed_cells' = g.killed_cells
         /\ birthed_cells' = g.birthed_cells
    /\ todo' = board
    /\ pc' = "scan"
    /\ before' = board
    /\ nsteps' = nsteps + 1
    /\ iter' = None
    /\ yielded' = <<>>
    /\ overflow' = NoOverflow
    /\ last' = Some([op |-> "step", generation |-> generation])
    /\ UNCHANGED <<board, generation, ctor, origin, build>>
    /\ UNCHANGED editVars
    /\ UNCHANGED <<appVars, progVars>>

NextGen ==
    \/ StepBeginGen
    \/ StepScan
    \/ StepScanEnd
    \/ StepKill
    \/ StepKillEnd
    \/ StepBirth
    \/ StepEnd

SpecGen == InitGen /\ [][NextGen]_vars

\* ---------------------------------------------------- SpecBoard: the Board
\* The boards and points the read-only operations are tried on: the
\* constructors' boards and the full window (a centre with 8 live neighbours).
BoardInputs == LiveSets \cup {Window}

\* A centre, a corner and an edge of the window, and a point outside of it.
QueryPoints == {Point(0, 0), Point(1, 1), Point(-1, 0), Point(2, 0)}

InitBoard ==
    /\ \E S \in BoardInputs : board = BoardFromArray(ArrayOf(S))
    /\ killed_cells = {}
    /\ birthed_cells = {}
    /\ generation = 0
    /\ pc = "idle"
    /\ todo = {}
    /\ ctor = "from_array"
    /\ origin = board
    /\ before = board
    /\ nsteps = 0
    /\ iter = None
    /\ yielded = <<>>
    /\ last = None
    /\ Untouched
    /\ build = "debug"

\* board.query(&p)
BoardQuery ==
    /\ \E p \in QueryPoints :
         last' = Some([arg |-> p, res |-> query(board, p), board |-> board])
    /\ UNCHANGED <<iter, yielded>>
    /\ UNCHANGED <<gameVars, editVars, edgeVars>>
    /\ UNCHANGED <<appVars, progVars>>

\* board.neighbors(&p): a new iterator.
BoardNeighbors ==
    /\ pc = "idle"
    /\ \E p \in QueryPoints : iter' = Some(neighbors(p))
    /\ yielded' = <<>>
    /\ overflow' = [overflow EXCEPT !.next = FALSE]
    /\ UNCHANGED <<last, build>>
    /\ UNCHANGED <<gameVars, editVars>>
    /\ UNCHANGED <<appVars, progVars>>

\* One next() call on the iterator.  When a coordinate overflows in it, the
\* build with overflow checks panics and the other returns the cell at the
\* wrapped coordinates.
BoardNext ==
    /\ pc = "idle"
    /\ iter.some
    /\ Len(yielded) < 8 + MaxExtraNext
    /\ \E r \in {NeighborsNext(board, iter.val)} :
         /\ overflow' = IF r.overflow THEN [overflow EXCEPT !.next = TRUE] ELSE overflow
         /\ IF r.overflow /\ build = "debug"
            THEN /\ pc' = "panicked"
                 /\ UNCHANGED <<iter, yielded>>
            ELSE /\ iter' = Some(r.it)
                 /\ yielded' = Append(yielded, r.item)
                 /\ pc' = pc
    /\ UNCHANGED <<last, build>>
    /\ UNCHANGED <<board, killed_cells, birthed_cells, generation, todo,
                    ctor, origin, before, nsteps>>
    /\ UNCHANGED editVars
    /\ UNCHANGED <<appVars, progVars>>

NextBoard ==
    \/ BoardQuery
    \/ BoardNeighbors
    \/ BoardNext

SpecBoard == InitBoard /\ [][NextBoard]_vars

\* ------------------------------- SpecHint: the length left in an iterator
\* The boards the iterators are made on: the empty board and the full window.
HintInputs == { {}, Window }

InitHint ==
    /\ \E S \in HintInputs : Constructed("from_array", GameOfLifeFromArray(ArrayOf(S)))
    /\ build = "debug"

\* iter.size_hint(), after the next() calls made so far.
BoardSizeHint ==
    /\ pc = "idle"
    /\ iter.some
    /\ last' = Some([op |-> "size_hint", calls |-> Len(yielded), res |-> size_hint(iter.val)])
    /\ UNCHANGED <<iter, yielded>>
    /\ UNCHANGED <<gameVars, editVars, edgeVars>>
    /\ UNCHANGED <<appVars, progVars>>

NextHint ==
    \/ BoardNeighbors
    \/ BoardNext
    \/ BoardSizeHint

SpecHint == InitHint /\ [][NextHint]_vars

\* ------------------------------------ SpecEdge: the limits of coordinates
\* The corner of the plane where x is largest and y smallest, and the corner
\* where x is smallest and y largest: the points at most 2 from the limits.
EdgeWindow(x0, y0) == {Point(x0 + dx, y0 + dy) : dx \in 0 .. 2, dy \in 0 .. 2}

EdgeInputs ==
    {S \in SUBSET EdgeWindow(I64Max - 2, I64Min) : Cardinality(S) <= MaxEdgeLive}
        \cup {S \in SUBSET EdgeWindow(I64Min, I64Max - 2) : Cardinality(S) <= MaxEdgeLive}

\* The centres of the iterators: at a limit in x, in y, in both, next to the
\* limits, and 2 away.
EdgeCentres ==
    {Point(I64Max, I64Min + 2), Point(I64Max - 2, I64Min), Point(I64Min, I64Max),
     Point(I64Max - 1, I64Min + 1), Point(I64Min + 2, I64Max - 2)}

InitEdge ==
    /\ \E S \in EdgeInputs : Constructed("from_array", GameOfLifeFromArray(ArrayOf(S)))
    /\ build \in {"debug", "release"}

\* board.neighbors(&p) at the limits: a new iterator.
BoardNeighborsEdge ==
    /\ pc = "idle"
    /\ \E p \in EdgeCentres : iter' = Some(neighbors(p))
    /\ yielded' = <<>>
    /\ overflow' = [overflow EXCEPT !.next = FALSE]
    /\ UNCHANGED <<last, build>>
    /\ UNCHANGED <<gameVars, editVars>>
    /\ UNCHANGED <<appVars, progVars>>

NextEdge ==
    \/ BoardNeighborsEdge
    \/ BoardNext
    \/ StepBegin
    \/ StepScan
    \/ StepScanEnd
    \/ StepKill
    \/ StepKillEnd
    \/ StepBirth
    \/ StepEnd

SpecEdge == InitEdge /\ [][NextEdge]_vars

\* ------------------------- SpecLocal: how far a step reaches, in both builds
\* Sessions of step() calls on boards far from the limits of the coordinates
\* (small boards of the window and the row of five, which spreads for two
\* steps) and on the boards at the limits, in both builds.
LocalInputs == FairInputs \cup {RowOfFive} \cup EdgeInputs

InitLocal ==
    /\ \E S \in LocalInputs : Constructed("from_array", GameOfLifeFromArray(ArrayOf(S)))
    /\ build \in {"debug", "release"}

SpecLocal == InitLocal /\ [][Next]_vars

\* ------------------------------------------- SpecWindow: window and widget
\* The boards seen through window(): those of SpecBoard, and boards with a
\* point at a limit of the coordinates.
WindowEdgeInputs ==
    { {Point(I64Min, 0), Point(0, 0)},
      {Point(I64Min, I64Min), Point(I64Min + 1, I64Min)},
      {Point(I64Max, -1)},
      {Point(0, I64Max), Point(0, 0)} }

WindowInputs == BoardInputs \cup WindowEdgeInputs

\* The lower left corners asked of window() and the origins panned to: in
\* the window of live cells, left of it, below it, and at the limits of the
\* coordinates.
WindowOrigins ==
    {Point(0, 0), Point(-1, -1), Point(-2, 0), Point(1, -2),
     Point(I64Max, 0), Point(I64Max, I64Max), Point(I64Min, 0), Point(0, I64Min)}

Sides == 0 .. MaxSide

\* Where the widget is drawn on the screen: inside of it, and at its last
\* column and its last row.
AreaCorner == Point(2, 1)

AreaCorners == {AreaCorner, Point(65535, 0), Point(0, 65535)}

InitWindow ==
    /\ \E S \in WindowInputs : board = BoardFromArray(ArrayOf(S))
    /\ killed_cells = {}
    /\ birthed_cells = {}
    /\ generation = 0
    /\ pc = "idle"
    /\ todo = {}
    /\ ctor = "from_array"
    /\ origin = board
    /\ before = board
    /\ nsteps = 0
    /\ iter = None
    /\ yielded = <<>>
    /\ last = None
    /\ Untouched
    /\ build \in {"debug", "release"}

\* board.window(point, width, height), read to its end.  (window() and
\* render() only read the board: a behaviour makes one call, of any kind, on
\* any board.)  When a subtraction overflows, the build with overflow checks
\* panics at the first point it overflows on, in whatever order the HashSet
\* hands the points, and the other build yields the items of the wrapped
\* differences.
BoardWindow ==
    /\ last = None
    /\ \E point \in WindowOrigins : \E width \in Sides : \E height \in Sides :
         \E w \in {window(board, point, width, height)} :
           IF w.overflow /\ build = "debug"
           THEN \E cells \in HandedUntilOverflow(board, point) :
                  last' = Some([op |-> "window", point |-> point, width |-> width,
                                height |-> height, board |-> board,
                                res |-> FilterMapWindow(cells, point, width, height).before,
                                overflow |-> TRUE, panicked |-> TRUE])
           ELSE last' = Some([op |-> "window", point |-> point, width |-> width,
                              height |-> height, board |-> board,
                              res |-> w.items,
                              overflow |-> w.overflow, panicked |-> FALSE])
    /\ UNCHANGED <<iter, yielded>>
    /\ UNCHANGED <<gameVars, editVars, edgeVars>>
    /\ UNCHANGED <<appVars, progVars>>

\* BoardWidget::new(&board).pan_to(origin).render(area, buf): the buffer
\* cells given the dot and those given the full block.  The build with
\* overflow checks panics at the first sum or difference that overflows.
WidgetRender ==
    /\ last = None
    /\ \E pan \in WindowOrigins : \E width \in Sides : \E height \in Sides :
         \E corner \in AreaCorners :
         \E area \in {Rect(corner.x, corner.y, width, height)} :
         \E d \in {RenderDots(area)} : \E f \in {RenderFull(board, pan, area)} :
           IF d.overflow /\ build = "debug"
           THEN last' = Some([op |-> "render", origin |-> pan, area |-> area,
                              board |-> board, dots |-> {}, full |-> {},
                              overflow |-> TRUE, panicked |-> TRUE])
           ELSE IF f.overflow /\ build = "debug"
           THEN \E cells \in HandedUntilOverflow(board, RenderCorner(pan, area)) :
                  last' = Some([op |-> "render", origin |-> pan, area |-> area,
                                board |-> board, dots |-> d.cells,
                                full |-> RenderFullOf(cells, pan, area).before,
                                overflow |-> TRUE, panicked |-> TRUE])
           ELSE last' = Some([op |-> "render", origin |-> pan, area |-> area,
                              board |-> board, dots |-> d.cells, full |-> f.cells,
                              overflow |-> d.overflow \/ f.overflow, panicked |-> FALSE])
    /\ UNCHANGED <<iter, yielded>>
    /\ UNCHANGED <<gameVars, editVars, edgeVars>>
    /\ UNCHANGED <<appVars, progVars>>

NextWindow ==
    \/ BoardWindow
    \/ WidgetRender

SpecWindow == InitWindow /\ [][NextWindow]_vars

\* ------------------------------------------- SpecEdit: the board is edited
\* The boards the edited sessions start with, and the points edited: the
\* centre of the window and a point outside of it.
EditInputs == {S \in LiveSets : Cardinality(S) <= MaxEditLive}

EditPoints == {Point(0, 0), Point(2, 0)}

InitEdit ==
    /\ \E S \in EditInputs : Constructed("from_array", GameOfLifeFromArray(ArrayOf(S)))
    /\ build = "debug"

\* The history of an operation op(arg) made on the board as it is now.
Recorded(op, arg) ==
    /\ last' = Some([op |-> op, arg |-> arg, board |-> board, generation |-> generation])
    /\ prev' = last
    /\ nops' = nops + 1

\* An operation of the Board leaves the rest of the session alone.
BoardOnly ==
    UNCHANGED <<killed_cells, birthed_cells, generation, pc, todo,
                ctor, origin, before, nsteps, iter, yielded, text, edgeVars,
                appVars, progVars>>

\* game.board.birth_cell(&p)
BoardBirthCell ==
    /\ nops < MaxOps
    /\ \E p \in EditPoints : board' = birth_cell(board, p) /\ Recorded("birth_cell", p)
    /\ BoardOnly

\* game.board.kill_cell(&p)
BoardKillCell ==
    /\ nops < MaxOps
    /\ \E p \in EditPoints : board' = kill_cell(board, p) /\ Recorded("kill_cell", p)
    /\ BoardOnly

\* game.board.toggle_cell(&p)
BoardToggleCell ==
    /\ nops < MaxOps
    /\ \E p \in EditPoints : board' = toggle_cell(board, p) /\ Recorded("toggle_cell", p)
    /\ BoardOnly

\* game.board.clear()
BoardClear ==
    /\ nops < MaxOps
    /\ board' = clear(board)
    /\ Recorded("clear", None)
    /\ BoardOnly

\* game.step(), from call to return.
GameStep ==
    /\ nops < MaxOps
    /\ \E g \in {step(Game)} :
         /\ board' = g.board
         /\ killed_cells' = g.killed_cells
         /\ birthed_cells' = g.birthed_cells
         /\ generation' = g.generation
    /\ before' = board
    /\ nsteps' = nsteps + 1
    /\ Recorded("step", None)
    /\ UNCHANGED <<pc, todo, ctor, origin, iter, yielded, text, edgeVars>>
    /\ UNCHANGED <<appVars, progVars>>

NextEdit ==
    \/ BoardBirthCell
    \/ BoardKillCell
    \/ BoardToggleCell
    \/ BoardClear
    \/ GameStep

SpecEdit == InitEdit /\ [][NextEdit]_vars

\* ------------------------------------------ SpecParse: a text is loaded
\* The boards the sessions start with: the empty board and a blinker.
ParsePriors == { {}, {Point(-1, 0), Point(0, 0), Point(1, 0)} }

InitParse ==
    /\ \E S \in ParsePriors : board = BoardFromArray(ArrayOf(S))
    /\ \E s \in Texts : text = s
    /\ killed_cells = {}
    /\ birthed_cells = {}
    /\ generation = 0
    /\ pc = "idle"
    /\ todo = {}
    /\ ctor = "from_array"
    /\ origin = board
    /\ before = board
    /\ nsteps = 0
    /\ iter = None
    /\ yielded = <<>>
    /\ last = None
    /\ prev = None
    /\ nops = 0
    /\ overflow = NoOverflow
    /\ NoApp
    /\ NoProgram
    /\ build = "debug"

\* game.board_from_str(text)
GameBoardFromStr ==
    /\ nops < MaxOps
    /\ \E r \in {board_from_str(Game, text)} :
         /\ board' = r.game.board
         /\ killed_cells' = r.game.killed_cells
         /\ birthed_cells' = r.game.birthed_cells
         /\ generation' = r.game.generation
         /\ last' = Some([op |-> "board_from_str", arg |-> text, board |-> board,
                          game |-> Game, res |-> r])
    /\ prev' = last
    /\ nops' = nops + 1
    /\ UNCHANGED <<pc, todo, ctor, origin, before, nsteps, iter, yielded, text, edgeVars>>
    /\ UNCHANGED <<appVars, progVars>>

NextParse ==
    \/ GameBoardFromStr
    \/ GameStep

SpecParse == InitParse /\ [][NextParse]_vars

\* -------------------------------------- SpecLines: a text of many lines
\* Texts of up to MaxLines lines, each line empty, a live cell or an invalid
\* character: more lines than the line index of a failure can count.
MaxLines == 2 ^ LineBits + 2

RECURSIVE JoinLines(_)
JoinLines(ls) ==
    IF ls = <<>> THEN <<>>
    ELSE IF Len(ls) = 1 THEN ls[1]
    ELSE ls[1] \o <<"\n">> \o JoinLines(Tail(ls))

LineTexts ==
    {JoinLines(ls) : ls \in UNION {[1 .. n -> {<<>>, <<"x">>, <<"?">>}] : n \in 0 .. MaxLines}}

InitLines ==
    /\ Constructed("default", GameOfLifeDefault)
    /\ build = "debug"

\* game.board_from_str(s), s a text of many lines, on a new session.
GameBoardFromStrLines ==
    /\ last = None
    /\ \E s \in LineTexts : \E r \in {board_from_str(Game, s)} :
         /\ text' = s
         /\ board' = r.game.board
         /\ killed_cells' = r.game.killed_cells
         /\ birthed_cells' = r.game.birthed_cells
         /\ generation' = r.game.generation
         /\ last' = Some([op |-> "board_from_str", arg |-> s, board |-> board,
                          game |-> Game, res |-> r])
    /\ prev' = last
    /\ nops' = nops + 1
    /\ UNCHANGED <<pc, todo, ctor, origin, before, nsteps, iter, yielded, edgeVars>>
    /\ UNCHANGED <<appVars, progVars>>

SpecLines == InitLines /\ [][GameBoardFromStrLines]_vars

\* ------------------------------------------ SpecApp: the main loop of main()
\* Mutant: the toggle stops a running game.
toggleStops(state) ==
    CASE state = "Stopped" -> "Running"
      [] state = "Paused"  -> "Running"
      [] state = "Running" -> "Stopped"

\* AppState::toggle
toggle(state) ==
    CASE state = "Stopped" -> "Running"
      [] state = "Paused"  -> "Running"
      [] state = "Running" -> "Paused"

\* Point::default(), Point::dx, Point::dy.  (The view origin moves by one per
\* key: no session is long enough to bring it to the limits.)
PointDefault == Point(0, 0)

PointDx(p, x) == [p EXCEPT !.x = @ + x]

PointDy(p, y) == [p EXCEPT !.y = @ + y]

\* Durations are counted in milliseconds.
TickStep == 50

AppTickRate == 750

saturating_sub(d, e) == IF d >= e THEN d - e ELSE 0

\* (Duration::MAX is out of reach of a session.)
saturating_add(d, e) == d + e

\* App::new(tick_rate): the fields of the App but for its game, which is the
\* session's board, working sets and generation.
AppNew(tick_rate) ==
    [tick_rate |-> tick_rate, origin |-> PointDefault, state |-> "Stopped", view |-> "Game"]

\* "x..x.\n....x\nx...x\n.xxxx"
init_board ==
    <<"x", ".", ".", "x", ".", "\n",
      ".", ".", ".", ".", "x", "\n",
      "x", ".", ".", ".", "x", "\n",
      ".", "x", "x", "x", "x">>

\* The keys: those main() matches on and one it does not.
Keys == {"1", "2", "q", "d", "u", "h", "j", "k", "l", " ", "r", "a"}

\* Most iterations of the main loop followed.
MaxAppOps == 4

\* main() up to its loop: App::new(750 ms), then board_from_str(init_board)?.
InitApp ==
    /\ \E r \in {board_from_str(GameOfLifeDefault, init_board)} :
         /\ r.ok
         /\ board = r.game.board
         /\ killed_cells = r.game.killed_cells
         /\ birthed_cells = r.game.birthed_cells
         /\ generation = r.game.generation
    /\ app = Some(AppNew(AppTickRate))
    /\ main = "loop"
    /\ ctor = "main"
    /\ origin = board
    /\ before = board
    /\ nsteps = 0
    /\ pc = "idle"
    /\ todo = {}
    /\ iter = None
    /\ yielded = <<>>
    /\ last = None
    /\ prev = None
    /\ nops = 0
    /\ text = init_board
    /\ overflow = NoOverflow
    /\ NoProgram
    /\ build = "debug"

\* The history of an iteration of the loop: what poll and read delivered,
\* and the state, the generation and the number of step() calls before it.
Iteration(op, key) ==
    /\ last' = Some([op |-> op, key |-> key, state |-> app.val.state,
                     generation |-> generation, nsteps |-> nsteps])
    /\ prev' = last
    /\ nops' = nops + 1

\* Mutant: the game steps on every tick, whatever the state.
OnTimeoutAlways(state, g) == [game |-> step(g), steps |-> 1]

\* The else branch of `if poll(app.tick_rate)?`: the game after it and the
\* number of step() calls made.
OnTimeout(state, g) ==
    IF state = "Running" THEN [game |-> step(g), steps |-> 1]
    ELSE [game |-> g, steps |-> 0]

\* An iteration whose poll times out: step() when the state is Running.
\* (The frame is drawn first in every iteration; drawing changes nothing of
\* the App.)
AppTick ==
    /\ main = "loop"
    /\ nops < MaxAppOps
    /\ \E r \in {OnTimeout(app.val.state, Game)} :
         /\ board' = r.game.board
         /\ killed_cells' = r.game.killed_cells
         /\ birthed_cells' = r.game.birthed_cells
         /\ generation' = r.game.generation
         /\ before' = IF r.steps > 0 THEN board ELSE before
         /\ nsteps' = nsteps + r.steps
    /\ Iteration("tick", None)
    /\ UNCHANGED <<app, main, pc, todo, ctor, origin, iter, yielded, text, edgeVars, progVars>>

\* An iteration whose poll delivers a key: the match on key.code.
AppKey ==
    /\ main = "loop"
    /\ nops < MaxAppOps
    /\ \E key \in Keys :
         /\ Iteration("key", key)
         /\ main' = IF key = "q" THEN "returned" ELSE main
         /\ IF key = "r"
            THEN \E r \in {board_from_str(Game, init_board)} :
                   /\ r.ok
                   /\ board' = r.game.board
                   /\ killed_cells' = r.game.killed_cells
                   /\ birthed_cells' = r.game.birthed_cells
                   /\ generation' = 0
                   /\ app' = Some([app.val EXCEPT !.state = "Stopped", !.origin = PointDefault])
            ELSE /\ UNCHANGED <<board, killed_cells, birthed_cells, generation>>
                 /\ app' = Some(CASE key = "1" -> [app.val EXCEPT !.view = "Game"]
                                  [] key = "2" -> [app.val EXCEPT !.view = "Logs"]
                                  [] key = "d" -> [app.val EXCEPT
                                                      !.tick_rate = saturating_sub(@, TickStep)]
                                  [] key = "u" -> [app.val EXCEPT
                                                      !.tick_rate = saturating_add(@, TickStep)]
                                  [] key = "h" -> [app.val EXCEPT !.origin = PointDx(@, -1)]
                                  [] key = "j" -> [app.val EXCEPT !.origin = PointDy(@, -1)]
                                  [] key = "k" -> [app.val EXCEPT !.origin = PointDy(@, 1)]
                                  [] key = "l" -> [app.val EXCEPT !.origin = PointDx(@, 1)]
                                  [] key = " " -> [app.val EXCEPT !.state = toggle(@)]
                                  [] OTHER     -> app.val)
    /\ UNCHANGED <<pc, todo, ctor, origin, before, nsteps, iter, yielded, text, edgeVars,
                   progVars>>

\* An iteration whose poll delivers a mouse event or any other event: both
\* arms of the match are empty.
AppEvent ==
    /\ main = "loop"
    /\ nops < MaxAppOps
    /\ \E e \in {"mouse", "resize"} : Iteration(e, None)
    /\ UNCHANGED <<app, main, progVars>>
    /\ UNCHANGED <<gameVars, iter, yielded, text, edgeVars>>

\* An iteration in which terminal.draw(..)?, poll(app.tick_rate)? or read()?
\* fails: main returns with the error, the App and the game as they were.
AppFail ==
    /\ main = "loop"
    /\ nops < MaxAppOps
    /\ \E e \in {"draw failed", "poll failed", "read failed"} : Iteration(e, None)
    /\ main' = "failed"
    /\ UNCHANGED <<app, progVars>>
    /\ UNCHANGED <<gameVars, iter, yielded, text, edgeVars>>

NextApp ==
    \/ AppTick
    \/ AppKey
    \/ AppEvent
    \/ AppFail

SpecApp == InitApp /\ [][NextApp]_vars

\* ------------------------------------- SpecProgram: Program::run and its
\* producer thread
\* Command<Id>: Exit, RegisterHitbox(id, area), RemoveHitbox(id), Chain(cmds).
Exit == [cmd |-> "Exit"]

RegisterHitbox(id, area) == [cmd |-> "RegisterHitbox", id |-> id, area |-> area]

RemoveHitbox(id) == [cmd |-> "RemoveHitbox", id |-> id]

Chain(cmds) == [cmd |-> "Chain", cmds |-> cmds]

\* The commands a model's update and view return in the sessions followed:
\* one id, one area, chains of up to MaxChain commands.
MaxChain == 2

PlainCommands == {Exit, RegisterHitbox("a", Rect(0, 0, 1, 1)), RemoveHitbox("a")}

Commands ==
    PlainCommands \cup {Chain(cmds) : cmds \in UNION {[1 .. n -> PlainCommands] : n \in 0 .. MaxChain}}

\* Option<Command<Id>>
Returned == {None} \cup {Some(c) : c \in Commands}

\* Program::execute_cmd
RECURSIVE execute_cmd(_, _)
execute_cmd(h, cmd) ==
    CASE cmd.cmd = "Chain" ->
           IF cmd.cmds = <<>> THEN h
           ELSE execute_cmd(execute_cmd(h, Head(cmd.cmds)), Chain(Tail(cmd.cmds)))
      [] cmd.cmd = "RegisterHitbox" ->
           [id \in DOMAIN h \cup {cmd.id} |-> IF id = cmd.id THEN cmd.area ELSE h[id]]
      [] OTHER -> h

\* Most events sent and not yet received.
MaxChannel == 2

\* Program::run up to the call of run_event_loop: the channel of the
\* Listener is made, the producer thread is spawned with running = true.
InitProgram ==
    /\ Constructed("default", GameOfLifeDefault)
    /\ build = "debug"

\* Program::run is called: Listener::default() and IoProducer::spawn.
ProgramRun ==
    /\ loop = "none"
    /\ loop' = "recv"
    /\ receiver' = TRUE
    /\ channel' = <<>>
    /\ running' = TRUE
    /\ producer' = "check"
    /\ UNCHANGED hitboxes
    /\ UNCHANGED <<gameVars, boardVars, editVars, edgeVars, appVars>>

\* listener.next()?: recv() blocks until an event is in the channel.  (The
\* Listener holds a Sender itself, so recv() never fails.)
LoopRecv ==
    /\ loop = "recv"
    /\ channel # <<>>
    /\ channel' = Tail(channel)
    /\ loop' = "update"
    /\ UNCHANGED <<producer, running, receiver, hitboxes>>
    /\ UNCHANGED <<gameVars, boardVars, editVars, edgeVars, appVars>>

\* model.update(&mut cx, event) and the match on the command it returns;
\* prev keeps the command returned last and the call that returned it.
LoopUpdate ==
    /\ loop = "update"
    /\ \E cmd \in Returned :
         /\ prev' = Some([op |-> "update", cmd |-> cmd])
         /\ IF cmd = Some(Exit)
            THEN loop' = "return" /\ UNCHANGED hitboxes
            ELSE /\ hitboxes' = IF cmd.some THEN execute_cmd(hitboxes, cmd.val) ELSE hitboxes
                 /\ loop' = "draw"
    /\ UNCHANGED <<producer, running, channel, receiver>>
    /\ UNCHANGED <<gameVars, boardVars, nops, text, edgeVars, appVars>>

\* terminal.draw(|f| cmd = model.view(f))? and the match on the command;
\* a failure of the terminal returns from the loop.
LoopDraw ==
    /\ loop = "draw"
    /\ \E io \in {"ok", "err"} : \E cmd \in Returned :
         /\ prev' = Some([op |-> IF io = "err" THEN "draw failed" ELSE "view", cmd |-> cmd])
         /\ IF io = "err" \/ cmd = Some(Exit)
            THEN loop' = "return" /\ UNCHANGED hitboxes
            ELSE /\ hitboxes' = IF cmd.some THEN execute_cmd(hitboxes, cmd.val) ELSE hitboxes
                 /\ loop' = "recv"
    /\ UNCHANGED <<producer, running, channel, receiver>>
    /\ UNCHANGED <<gameVars, boardVars, nops, text, edgeVars, appVars>>

\* run_event_loop returns: the Listener it was given is dropped, and with
\* it the Receiver and the events not received.
LoopReturn ==
    /\ loop = "return"
    /\ receiver' = FALSE
    /\ channel' = <<>>
    /\ loop' = "kill"
    /\ UNCHANGED <<producer, running, hitboxes>>
    /\ UNCHANGED <<gameVars, boardVars, editVars, edgeVars, appVars>>

\* io_producer.kill(): running.store(false, Relaxed); the thread is not
\* joined.  Program::run then restores the terminal and returns.
ProgramKill ==
    /\ loop = "kill"
    /\ running' = FALSE
    /\ loop' = "returned"
    /\ UNCHANGED <<producer, channel, receiver, hitboxes>>
    /\ UNCHANGED <<gameVars, boardVars, editVars, edgeVars, appVars>>

\* The thread: `if !is_running.load(Relaxed) { break; }`.  A relaxed load
\* made after the store may still return the value before it.
ProducerCheck ==
    /\ producer = "check"
    /\ \E seen \in (IF running THEN {TRUE} ELSE {TRUE, FALSE}) :
         producer' = IF seen THEN "poll" ELSE "exited"
    /\ UNCHANGED <<loop, running, channel, receiver, hitboxes>>
    /\ UNCHANGED <<gameVars, boardVars, editVars, edgeVars, appVars>>

\* The thread: poll(poll_time), then read() and send(e.into()).unwrap() for
\* a key or a mouse event, nothing for another event, send(Tick).unwrap()
\* when the poll times out.  send fails once the Receiver is dropped, and
\* unwrap panics; so does the unwrap of a poll that fails.  ("Other" is any
\* other result of read(), an error too.)
ProducerPoll ==
    /\ producer = "poll"
    /\ Len(channel) < MaxChannel
    /\ \E got \in {"Key", "Mouse", "Other", "Timeout", "Err"} :
         IF got \in {"Other", "Err"}
         THEN /\ producer' = IF got = "Err" THEN "panicked" ELSE "check"
              /\ UNCHANGED <<channel, last>>
         ELSE LET event == IF got = "Timeout" THEN "Tick" ELSE got
              IN  /\ last' = Some([op |-> "send", event |-> event,
                                   receiver |-> receiver, running |-> running])
                  /\ IF receiver
                     THEN channel' = Append(channel, event) /\ producer' = "check"
                     ELSE producer' = "panicked" /\ UNCHANGED channel
    /\ UNCHANGED <<loop, running, receiver, hitboxes>>
    /\ UNCHANGED <<gameVars, iter, yielded, editVars, edgeVars, appVars>>

NextProgram ==
    \/ ProgramRun
    \/ LoopRecv
    \/ LoopUpdate
    \/ LoopDraw
    \/ LoopReturn
    \/ ProgramKill
    \/ ProducerCheck
    \/ ProducerPoll

SpecProgram == InitProgram /\ [][NextProgram]_vars

\* ================================================================== claims
\* What the claims speak of, stated without the code's enumeration.
Abs(n) == IF n < 0 THEN -n ELSE n

\* p and q are distinct and Moore-adjacent.
Adjacent(p, q) == p # q /\ Abs(p.x - q.x) <= 1 /\ Abs(p.y - q.y) <= 1

\* n(p): the number of the 8 Moore neighbours of p that are live in B.
MooreCount(B, p) == Cardinality({q \in B : Adjacent(p, q)})

\* The points of S and every point Moore-adjacent to one.
Around(S) == UNION {{Point(p.x + dx, p.y + dy) : dx \in -1 .. 1, dy \in -1 .. 1} : p \in S}

\* The live points of B that rules 1 and 2 kill, the dead points rule 4 births.
\* (A point with three live neighbours is adjacent to a live point.)
KillSet(B) == {p \in B : MooreCount(B, p) \notin {2, 3}}

BirthSet(B) == {p \in Around(B) : p \notin B /\ MooreCount(B, p) = 3}

\* { p : (p in B and n(p) in {2,3}) or (p not in B and n(p) = 3) }
LifeRule(B) ==
    {p \in Around(B) : \/ p \in B /\ MooreCount(B, p) \in {2, 3}
                       \/ p \notin B /\ MooreCount(B, p) = 3}

\* A step() call has returned and no other is running.
AfterStep == pc = "idle" /\ nsteps > 0

\* C1: after one step() the live set is exactly the points that were live
\* with 2 or 3 live neighbours or dead with exactly 3 live neighbours, the
\* neighbours counted on the board as it was before the step.
C1_StepIsLifeRule == AfterStep => board = LifeRule(before)

\* A step that killed a cell, kept one and birthed one.
C1_Witness ==
    /\ AfterStep
    /\ before \ board # {}
    /\ before \cap board # {}
    /\ board \ before # {}

\* C2: step() is order-independent: whatever order the loops visit their
\* items in, the session's state at every point of the step is the same
\* function of the board before the step and of the set of items visited
\* so far; the board is untouched until the scan is over, and the step ends
\* with the same board, killed_cells and birthed_cells.
C2_StepOrderIndependent ==
    LET visited == before \ todo
    IN  /\ pc = "scan" =>
              /\ board = before
              /\ killed_cells = KillSet(before) \cap visited
              /\ birthed_cells = BirthSet(before) \cap Around(visited)
        /\ pc = "kill" =>
              /\ killed_cells = KillSet(before)
              /\ birthed_cells = BirthSet(before)
              /\ board = before \ (killed_cells \ todo)
        /\ pc = "birth" =>
              /\ killed_cells = KillSet(before)
              /\ birthed_cells = BirthSet(before)
              /\ board = (before \ killed_cells) \cup (birthed_cells \ todo)
        /\ AfterStep =>
              /\ killed_cells = KillSet(before)
              /\ birthed_cells = BirthSet(before)
              /\ board = (before \ killed_cells) \cup birthed_cells

\* In the middle of a scan that has a choice of orders behind and ahead of
\* it, with kills and births already decided.
C2_Witness ==
    /\ pc = "scan"
    /\ Cardinality(before \ todo) >= 2
    /\ Cardinality(todo) >= 2
    /\ killed_cells # {}
    /\ birthed_cells # {}

\* C3: a new session (default, from an array, from text) has generation 0,
\* and the generation equals the number of step() calls that have returned.
C3_GenerationCountsSteps ==
    /\ ctor \in {"default", "from_array", "from_str"}
    /\ nsteps = 0 => generation = 0
    /\ generation = (IF pc = "idle" THEN nsteps ELSE nsteps - 1)

\* Two steps of a session parsed from text, its board not empty.
C3_Witness ==
    /\ ctor = "from_str"
    /\ pc = "idle"
    /\ nsteps = 2
    /\ board # {}

\* C4: once the scan is over, the kill-set and the birth-set are disjoint
\* (the killed were live before the step, the birthed dead), so kills then
\* births give the board that births then kills give.
C4_KillBirthDisjoint ==
    pc \in {"kill", "birth"} =>
        /\ killed_cells \cap birthed_cells = {}
        /\ killed_cells \subseteq before
        /\ birthed_cells \cap before = {}
        /\ (before \ killed_cells) \cup birthed_cells
              = (before \cup birthed_cells) \ killed_cells

\* The scan is over with cells to kill and cells to birth.
C4_Witness ==
    /\ pc = "kill"
    /\ todo = killed_cells
    /\ killed_cells # {}
    /\ birthed_cells # {}

\* C5: a session that starts with an empty board has an empty board for
\* ever (no cell is born), while its generation counts the steps.
C5_EmptyIsFixedPoint ==
    origin = {} =>
        /\ board = {}
        /\ birthed_cells = {}
        /\ pc = "idle" => generation = nsteps

\* Two steps from the empty board.
C5_Witness ==
    /\ origin = {}
    /\ pc = "idle"
    /\ nsteps = 2

\* B is one live cell; B is two Moore-adjacent live cells.
IsLonely(B) == Cardinality(B) = 1

IsAdjacentPair(B) == Cardinality(B) = 2 /\ \A p, q \in B : p # q => Adjacent(p, q)

\* C6: a board of one live cell, and a board of two Moore-adjacent live
\* cells, are empty after one step().
C6_Underpopulation ==
    (AfterStep /\ (IsLonely(before) \/ IsAdjacentPair(before))) => board = {}

\* A step from a diagonal pair.
C6_Witness ==
    /\ AfterStep
    /\ IsAdjacentPair(before)
    /\ \E p, q \in before : p.x # q.x /\ p.y # q.y

\* The 2x2 block with lower left corner p.
Block(p) ==
    {p, Point(p.x + 1, p.y), Point(p.x + 1, p.y + 1), Point(p.x, p.y + 1)}

IsBlock(B) == \E p \in B : B = Block(p)

\* C7: a 2x2 block is a still life: the board after a step from it equals
\* the board before, and a session that starts with it never has another.
C7_BlockIsStillLife ==
    /\ (AfterStep /\ IsBlock(before)) => board = before
    /\ IsBlock(origin) => board = origin

\* Two steps of a session that started with a block away from (0,0).
C7_Witness ==
    /\ IsBlock(origin)
    /\ Point(0, 0) \notin origin
    /\ pc = "idle"
    /\ nsteps = 2

\* The live centre c with its four diagonal neighbours; its four orthogonal
\* neighbours.
Cross(c) ==
    {c, Point(c.x + 1, c.y + 1), Point(c.x - 1, c.y + 1),
        Point(c.x - 1, c.y - 1), Point(c.x + 1, c.y - 1)}

Diamond(c) ==
    {Point(c.x + 1, c.y), Point(c.x, c.y + 1), Point(c.x - 1, c.y), Point(c.x, c.y - 1)}

\* C8: the diagonal cross around c steps to exactly the four orthogonal
\* neighbours of c: the five cells of the cross die and the four are born.
C8_CrossToDiamond ==
    AfterStep =>
        \A c \in before :
            before = Cross(c) =>
                /\ board = Diamond(c)
                /\ killed_cells = Cross(c)
                /\ birthed_cells = Diamond(c)

\* A step from a cross whose centre is not (0,0).
C8_Witness ==
    /\ AfterStep
    /\ \E c \in before : c # Point(0, 0) /\ before = Cross(c)

\* The fixed sequence of offsets of the neighbours.
Offsets ==
    << <<1, 0>>, <<1, 1>>, <<0, 1>>, <<-1, 1>>, <<-1, 0>>, <<-1, -1>>, <<0, -1>>, <<1, -1>> >>

\* C9: neighbors() yields exactly 8 cells and then ends; the i-th cell is at
\* the centre plus the i-th offset, whatever the board holds, so the centre
\* is never yielded and no position is yielded twice.
C9_NeighborsEightInOrder ==
    iter.some =>
        LET c == iter.val.pos
        IN  /\ \A i \in DOMAIN yielded : yielded[i].some <=> i <= 8
            /\ \A i \in DOMAIN yielded : yielded[i].some =>
                  /\ yielded[i].val.pos = Point(c.x + Offsets[i][1], c.y + Offsets[i][2])
                  /\ yielded[i].val.pos # c
                  /\ \A j \in DOMAIN yielded :
                        (yielded[j].some /\ j # i) => yielded[j].val.pos # yielded[i].val.pos

\* An iterator that has yielded 8 live cells and then ended.
C9_Witness ==
    /\ iter.some
    /\ Len(yielded) = 9
    /\ \A i \in 1 .. 8 : yielded[i].some /\ yielded[i].val.tag = "Alive"
    /\ ~yielded[9].some

\* C10: query(p) returns Alive(p) exactly when p is in the live set and
\* Dead(p) otherwise, for every point, and leaves the board as it was; every
\* cell neighbors() yields is tagged by the same rule against the board.
C10_QueryTotalReadOnly ==
    /\ last.some =>
          /\ last.val.res = (IF last.val.arg \in board THEN Alive(last.val.arg)
                                                      ELSE Dead(last.val.arg))
          /\ board = last.val.board
    /\ \A i \in DOMAIN yielded : yielded[i].some =>
          /\ yielded[i].val.tag \in {"Alive", "Dead"}
          /\ yielded[i].val.tag = "Alive" <=> yielded[i].val.pos \in board

\* A live point was queried, and an iterator has yielded live and dead cells.
C10_Witness ==
    /\ last.some
    /\ last.val.res.tag = "Alive"
    /\ \E i, j \in DOMAIN yielded :
          /\ yielded[i].some /\ yielded[i].val.tag = "Alive"
          /\ yielded[j].some /\ yielded[j].val.tag = "Dead"

\* The last operation was op, made on the board b0 with the argument p.
LastWas(op) == last.some /\ last.val.op = op

\* The operation before the last was op with the same argument as the last.
PrevWasSame(op) == prev.some /\ prev.val.op = op /\ prev.val.arg = last.val.arg

\* C11: birth_cell(p) is an idempotent insert: after it p is alive and every
\* other point is as it was; on a p that was live already, and so on a
\* second call, the board is left as it was.
C11_BirthCellIdempotentInsert ==
    LastWas("birth_cell") =>
        LET p == last.val.arg
            b0 == last.val.board
        IN  /\ p \in board
            /\ board \ {p} = b0 \ {p}
            /\ p \in b0 => board = b0
            /\ PrevWasSame("birth_cell") => board = b0

\* A dead point of a board with other live points was birthed twice.
C11_Witness ==
    /\ LastWas("birth_cell")
    /\ PrevWasSame("birth_cell")
    /\ last.val.arg \notin prev.val.board
    /\ prev.val.board # {}

\* C12: kill_cell(p) is an idempotent removal: after it p is dead and every
\* other point is as it was; when p was dead already the board is the board
\* before the call.
C12_KillCellIdempotentRemoval ==
    LastWas("kill_cell") =>
        LET p == last.val.arg
            b0 == last.val.board
        IN  /\ p \notin board
            /\ board \ {p} = b0 \ {p}
            /\ p \notin b0 => board = b0
            /\ PrevWasSame("kill_cell") => board = b0

\* A live point of a board with other live points was killed twice.
C12_Witness ==
    /\ LastWas("kill_cell")
    /\ PrevWasSame("kill_cell")
    /\ last.val.arg \in prev.val.board
    /\ board # {}

\* C13: toggle_cell(p) flips p (inserted if absent, removed if present) and
\* no other point, so two toggles of the same point in a row give back the
\* board as it was before the first.
C13_ToggleFlipsOnePoint ==
    LastWas("toggle_cell") =>
        LET p == last.val.arg
            b0 == last.val.board
        IN  /\ p \in board <=> p \notin b0
            /\ board \ {p} = b0 \ {p}
            /\ PrevWasSame("toggle_cell") => board = prev.val.board

\* A live point of a board with other live points was toggled off and on.
C13_Witness ==
    /\ LastWas("toggle_cell")
    /\ PrevWasSame("toggle_cell")
    /\ last.val.arg \in board
    /\ board # {last.val.arg}

\* C14: after clear() the board is the empty (default) board, whatever was
\* done to it before: every query returns Dead and iter() yields nothing.
C14_ClearEmpties ==
    LastWas("clear") =>
        /\ board = BoardDefault
        /\ \A p \in EditPoints \cup last.val.board : query(board, p) = Dead(p)
        /\ BoardIter(board) = EmptyBag

\* A board that was edited and then stepped, and was not empty, was cleared.
C14_Witness ==
    /\ LastWas("clear")
    /\ last.val.board # {}
    /\ prev.some /\ prev.val.op = "step"
    /\ nops = MaxOps

\* The live points of B in the rectangle of the given sides whose lower left
\* corner is o.
InRect(B, o, width, height) ==
    {p \in B : /\ 0 <= p.x - o.x /\ p.x - o.x < width
               /\ 0 <= p.y - o.y /\ p.y - o.y < height}

\* C15 as it was stated: window(origin, width, height) yields, each once,
\* the live points in the rectangle [0, width) x [0, height) from origin and
\* no other, each with its offset from origin; the offsets are below width
\* and height, and a rectangle without width or height yields nothing.
C15_WindowIsRectangle ==
    LastWas("window") =>
          LET v == last.val
              inside == InRect(board, v.point, v.width, v.height)
          IN  /\ ~v.panicked
              /\ BagToSet(v.res)
                    = {[p |-> p, dx |-> p.x - v.point.x, dy |-> p.y - v.point.y] : p \in inside}
              /\ \A e \in BagToSet(v.res) :
                    /\ CopiesIn(e, v.res) = 1
                    /\ e.dx < v.width
                    /\ e.dy < v.height
              /\ BagCardinality(v.res) = Cardinality(inside)
              /\ (v.width = 0 \/ v.height = 0) => v.res = EmptyBag
              /\ board = v.board

\* The offsets of every live point of B from o are numbers of i64.
OffsetsInI64(B, o) == \A p \in B : InI64(p.x - o.x) /\ InI64(p.y - o.y)

\* C15, amended: when the offsets of all live points from origin are
\* numbers of i64, window() yields, each once, the live points in the
\* rectangle and no other, each with its offset, and nothing for a rectangle
\* without width or height.  When an offset is not, the build with overflow
\* checks panics, having yielded only points of the rectangle, and the
\* other build yields, each once, the live points whose wrapped offsets are
\* in the rectangle.  The widget draws the items inside its area when
\* nothing overflows.
C15_WindowIsRectangleInRange ==
    /\ LastWas("window") =>
          LET v == last.val
              inside == InRect(board, v.point, v.width, v.height)
              wrapped == {p \in board :
                            /\ 0 <= WrapI64(p.x - v.point.x)
                            /\ WrapI64(p.x - v.point.x) < v.width
                            /\ 0 <= WrapI64(p.y - v.point.y)
                            /\ WrapI64(p.y - v.point.y) < v.height}
          IN  /\ board = v.board
              /\ \A e \in BagToSet(v.res) :
                    CopiesIn(e, v.res) = 1 /\ e.dx < v.width /\ e.dy < v.height
              /\ (v.width = 0 \/ v.height = 0) => v.res = EmptyBag
              /\ v.overflow = ~OffsetsInI64(board, v.point)
              /\ v.panicked = (v.overflow /\ build = "debug")
              /\ ~v.overflow =>
                    /\ BagToSet(v.res)
                          = {[p |-> p, dx |-> p.x - v.point.x, dy |-> p.y - v.point.y] :
                                p \in inside}
                    /\ BagCardinality(v.res) = Cardinality(inside)
              /\ v.panicked => {e.p : e \in BagToSet(v.res)} \subseteq inside
              /\ (v.overflow /\ ~v.panicked) =>
                    {e.p : e \in BagToSet(v.res)} = wrapped
    /\ (LastWas("render") /\ ~last.val.overflow) =>
          LET v == last.val
              corner == Point(v.origin.x - v.area.width \div 2,
                              v.origin.y - v.area.height \div 2)
          IN  /\ ~v.panicked
              /\ v.full \subseteq v.dots
              /\ v.full = {<<v.area.x + (p.x - corner.x), v.area.y + (p.y - corner.y)>> :
                               p \in InRect(board, corner, v.area.width, v.area.height)}

\* A window, no offset from its origin beyond i64, that yields two points
\* or more and leaves out a live point to the left of it or below it and a
\* live point to the right of it or above.
C15_Witness ==
    /\ LastWas("window")
    /\ OffsetsInI64(board, last.val.point)
    /\ BagCardinality(last.val.res) >= 2
    /\ \E p \in board : p.x < last.val.point.x \/ p.y < last.val.point.y
    /\ \E p \in board : \/ p.x >= last.val.point.x + last.val.width
                         \/ p.y >= last.val.point.y + last.val.height

\* The text read as characters in lines, without the code's line splitter:
\* the characters that end a line ("\n", and a "\r" right before one), the
\* row of a character counted from the top, its column, the number of lines.
EndsLine(s, i) == s[i] = "\n" \/ (s[i] = "\r" /\ i < Len(s) /\ s[i + 1] = "\n")

Row(s, i) == Cardinality({j \in 1 .. i - 1 : s[j] = "\n"})

Column(s, i) == Cardinality({j \in 1 .. i - 1 : Row(s, j) = Row(s, i)})

NumLines(s) ==
    Cardinality({j \in 1 .. Len(s) : s[j] = "\n"})
        + (IF s # <<>> /\ s[Len(s)] # "\n" THEN 1 ELSE 0)

\* The characters of a line that are neither '.' nor 'x'.
InvalidAt(s) == {i \in 1 .. Len(s) : ~EndsLine(s, i) /\ s[i] \notin {".", "x"}}

\* C16: a text of '.', 'x' and line breaks parses, and the live set is
\* { (c, L-1-r) : the character at column c of the r-th line from the top is
\* 'x' }, L the number of lines: the last line is y = 0, every other point
\* is dead.
C16_ParseMapsRowsBottomUp ==
    (LastWas("board_from_str") /\ InvalidAt(text) = {}) =>
        /\ last.val.res.ok
        /\ board = {Point(Column(text, i), NumLines(text) - 1 - Row(text, i)) :
                        i \in {j \in 1 .. Len(text) : text[j] = "x"}}

\* A text of two lines with a live cell on each, at different columns, was
\* loaded over a board that was not empty.
C16_Witness ==
    /\ LastWas("board_from_str")
    /\ InvalidAt(text) = {}
    /\ last.val.board # {}
    /\ \E p, q \in board : p.y = 0 /\ q.y = 1 /\ p.x # q.x

\* C17: a text with a character other than '.' and 'x' on a line never
\* gives a board: the failure is InvalidBoardChar, c is such a character of
\* the text, line is the index, 0 for the bottom line, of the line holding
\* it, and s is the whole text.
C17_InvalidCharFailsParse ==
    (LastWas("board_from_str") /\ InvalidAt(text) # {}) =>
        LET r == last.val.res
        IN  /\ ~r.ok
            /\ r.err.s = text
            /\ \E i \in InvalidAt(text) :
                  /\ text[i] = r.err.c
                  /\ r.err.line = NumLines(text) - 1 - Row(text, i)

\* The invalid character is on the upper of two lines, past a live cell.
C17_Witness ==
    /\ LastWas("board_from_str")
    /\ ~last.val.res.ok
    /\ last.val.res.err.line = 1
    /\ last.val.res.err.c = "?"
    /\ text[1] = "x"

\* C18: board_from_str() is all or nothing: when it fails, the board, the
\* generation and the working sets are what they were before the call; when
\* it succeeds the board is the parsed board (no cell of the old board stays
\* unless the text marks it) and the rest is what it was.
C18_LoadAllOrNothing ==
    LastWas("board_from_str") =>
        LET g0 == last.val.game
            r == BoardFromStr(text)
        IN  /\ ~last.val.res.ok => Game = g0
            /\ last.val.res.ok =>
                  /\ r.ok /\ board = r.board
                  /\ killed_cells = g0.killed_cells
                  /\ birthed_cells = g0.birthed_cells
                  /\ generation = g0.generation

\* A load failed past a live cell, after a step that killed and birthed,
\* on a board that was not empty.
C18_Witness ==
    /\ LastWas("board_from_str")
    /\ ~last.val.res.ok
    /\ text[1] = "x"
    /\ generation > 0
    /\ killed_cells # {} /\ birthed_cells # {}
    /\ board # {}

\* A coordinate of p is the smallest or the largest i64; a coordinate of p
\* is less than 2 from one of them.
AtLimit(p) == p.x \in {I64Min, I64Max} \/ p.y \in {I64Min, I64Max}

NearLimit(p) ==
    \/ p.x < I64Min + 2 \/ p.x > I64Max - 2
    \/ p.y < I64Min + 2 \/ p.y > I64Max - 2

\* C19 as it was stated: neighbors() and step() are total at the limits of
\* the coordinates too: no coordinate computation overflows and nothing
\* fails, whatever point the iterator is centred on and whatever live cells
\* the board holds.
C19_TotalAtLimits ==
    /\ overflow = NoOverflow
    /\ pc # "panicked"

\* C19, amended: neighbors() yields 8 cells without overflow when no
\* coordinate of its centre is the smallest or largest i64, and step()
\* completes without overflow when every live cell is 2 or more from them.
\* Otherwise a coordinate computation overflows: the build with overflow
\* checks panics before the 8th cell, or before step() returns; the build
\* without them yields 8 cells, and completes the step, at wrapped
\* coordinates.
C19_TotalAwayFromLimits ==
    /\ pc = "panicked" => (build = "debug" /\ (overflow.next \/ overflow.step))
    /\ iter.some =>
          IF AtLimit(iter.val.pos)
          THEN /\ Len(yielded) >= 8 => overflow.next
               /\ build = "debug" => Len(yielded) < 8
          ELSE /\ ~overflow.next
               /\ \A i \in DOMAIN yielded : yielded[i].some <=> i <= 8
    /\ nsteps > 0 =>
          IF \E p \in before : NearLimit(p)
          THEN /\ pc \in {"kill", "birth", "idle"} => overflow.step
               /\ build = "debug" => pc \in {"scan", "panicked"}
          ELSE ~overflow.step

\* Next to the limits and still clear of them: a step from a live cell 2
\* from the limits has returned, and an iterator centred 1 from the limits
\* has yielded its 8 cells and ended.
C19_Witness ==
    /\ AfterStep
    /\ before # {}
    /\ \A p \in before : ~NearLimit(p)
    /\ iter.some
    /\ iter.val.pos = Point(I64Max - 1, I64Min + 1)
    /\ Len(yielded) = 9

\* C20: every step() call terminates: each iteration of its three loops
\* takes one item off what the loop has yet to visit (the scan visits each
\* live cell once), and a step that has been called returns.
C20_StepTerminates ==
    /\ [][(pc \in {"scan", "kill", "birth"} /\ pc' = pc) =>
              (todo' \subseteq todo /\ Cardinality(todo') = Cardinality(todo) - 1)]_vars
    /\ (pc \in {"scan", "kill", "birth"}) ~> (pc \in {"idle", "panicked"})

\* A step of a board of MaxFairLive cells has returned, having killed and
\* birthed.
C20_Witness ==
    /\ AfterStep
    /\ Cardinality(before) >= MaxFairLive
    /\ killed_cells # {}
    /\ birthed_cells # {}

\* C22: the working sets hold the decisions of the last step only: once a
\* step() has returned, killed_cells is the set of the points live before
\* it with a live-neighbour count other than 2 and 3, birthed_cells the set
\* of the points dead before it with exactly 3 live neighbours, and no point
\* is in either set for having been killed or birthed by an earlier step.
C22_WorkingSetsOfThisStep ==
    AfterStep =>
        /\ \A p \in killed_cells : p \in before /\ MooreCount(before, p) \notin {2, 3}
        /\ \A p \in before : MooreCount(before, p) \notin {2, 3} => p \in killed_cells
        /\ \A p \in birthed_cells : p \notin before /\ MooreCount(before, p) = 3
        /\ \A p \in Around(before) :
              (p \notin before /\ MooreCount(before, p) = 3) => p \in birthed_cells

\* A second step has returned; the first killed cells and birthed cells, and
\* so did the second.
C22_Witness ==
    /\ AfterStep
    /\ nsteps = 2
    /\ origin \ before # {}
    /\ before \ origin # {}
    /\ killed_cells # {}
    /\ birthed_cells # {}

\* C23: the neighbour sequence reports its exact remaining length: after k
\* next() calls, k from 0 to 8, size_hint() is (8 - k, Some(8 - k)); the index
\* never exceeds 8, so 8 - which never underflows; every next() call after
\* the eighth returns None and leaves the remaining length at 0.
C23_SizeHintExact ==
    /\ iter.some =>
          /\ iter.val.which \in 0 .. 8
          /\ iter.val.which = (IF Len(yielded) <= 8 THEN Len(yielded) ELSE 8)
          /\ \A i \in DOMAIN yielded : i > 8 => yielded[i] = None
    /\ last.some =>
          LET k == last.val.calls
              left == IF k <= 8 THEN 8 - k ELSE 0
          IN  last.val.res = <<left, Some(left)>>

\* size_hint() was called on an iterator that had ended: after its eighth
\* next() call and the calls that followed it.
C23_Witness ==
    /\ iter.some
    /\ Len(yielded) = 8 + MaxExtraNext
    /\ yielded[3].some
    /\ last.some
    /\ last.val.calls = Len(yielded)
    /\ last.val.res = <<0, Some(0)>>

\* The first character of the text, in reading order (top line first, left
\* to right), that is neither '.' nor 'x' nor part of a line break.
FirstInvalid(s) == CHOOSE i \in InvalidAt(s) : \A j \in InvalidAt(s) : i <= j

\* C24: parsing fails on the first invalid character of the text: when
\* several characters are invalid, the failure reports the one that comes
\* first in top-to-bottom, left-to-right reading order (its character and
\* the index, from the bottom, of its line).
C24_FirstInvalidInReadingOrder ==
    (LastWas("board_from_str") /\ InvalidAt(text) # {}) =>
        LET r == last.val.res
            i == FirstInvalid(text)
        IN  /\ ~r.ok
            /\ r.err.c = text[i]
            /\ r.err.line = NumLines(text) - 1 - Row(text, i)

\* C25: the line index of a parse failure is the true index, counted from
\* the bottom, of the line of the character reported, for a text of any
\* number of lines.
C25_LineIndexIsTrue ==
    (LastWas("board_from_str") /\ ~last.val.res.ok) =>
        \E i \in InvalidAt(text) :
            /\ text[i] = last.val.res.err.c
            /\ last.val.res.err.line = NumLines(text) - 1 - Row(text, i)

\* C26: the generation counter increases over step() calls without limit:
\* every step() call of a session of any length returns, and the generation
\* after it is strictly greater than the generation before it.
C26_GenerationAlwaysIncreases ==
    /\ pc # "panicked"
    /\ (AfterStep /\ LastWas("step")) => generation > last.val.generation

\* The Chebyshev distance of two points.
Chebyshev(p, q) ==
    LET dx == Abs(p.x - q.x)
        dy == Abs(p.y - q.y)
    IN  IF dx >= dy THEN dx ELSE dy

\* C27 as it was stated: births are local: a cell birthed by a step is dead
\* before it and Moore-adjacent to a cell live before it, so every cell live
\* after a step was live before it or is adjacent to one that was; after n
\* steps every live cell lies within Chebyshev distance n of a cell of the
\* initial board.
C27_BirthsAreLocal ==
    /\ \A p \in birthed_cells : p \notin before /\ \E q \in before : Adjacent(p, q)
    /\ \A p \in board : p \in before \/ \E q \in before : Adjacent(p, q)
    /\ \A p \in board : \E q \in origin : Chebyshev(p, q) <= nsteps

\* p and q are distinct and adjacent when the coordinates go round from the
\* largest i64 to the smallest.
AdjacentWrapped(p, q) ==
    p # q /\ WrapI64(p.x - q.x) \in -1 .. 1 /\ WrapI64(p.y - q.y) \in -1 .. 1

\* Both coordinates of every point of B are at least n from the smallest and
\* from the largest i64.
AwayFromLimits(B, n) ==
    \A p \in B : /\ p.x >= I64Min + n /\ p.x <= I64Max - n
                 /\ p.y >= I64Min + n /\ p.y <= I64Max - n

\* C27, amended: when every cell live before a step is at least 2 from the
\* limits of the coordinates, a cell birthed by the step is dead before it
\* and Moore-adjacent to a cell live before it, and every cell live after it
\* was live before it or is adjacent to one that was; when every cell of the
\* initial board is at least n + 1 from the limits, every live cell lies
\* within Chebyshev distance n of a cell of the initial board after n steps.
\* At the limits a birthed cell is adjacent to a cell live before the step
\* with the coordinates going round.
C27_BirthsAreLocalInRange ==
    /\ \A p \in birthed_cells : p \notin before /\ \E q \in before : AdjacentWrapped(p, q)
    /\ \A p \in board : p \in before \/ \E q \in before : AdjacentWrapped(p, q)
    /\ AwayFromLimits(before, 2) =>
          /\ \A p \in birthed_cells : \E q \in before : Adjacent(p, q)
          /\ \A p \in board : p \in before \/ \E q \in before : Adjacent(p, q)
    /\ AwayFromLimits(origin, nsteps + 1) =>
          \A p \in board : \E q \in origin : Chebyshev(p, q) <= nsteps

\* Two steps have returned on a board that began 3 or more from the limits,
\* and a live cell is 2 away from the nearest cell of the initial board; the
\* last step birthed a cell.
C27_Witness ==
    /\ AfterStep
    /\ nsteps = 2
    /\ AwayFromLimits(origin, 3)
    /\ birthed_cells # {}
    /\ \E p \in board : \A q \in origin : Chebyshev(p, q) >= 2

\* The last iteration of the main loop delivered the key.
LastKey(key) == LastWas("key") /\ last.val.key = key

\* The last iteration timed out while the state was Running.
RunningTick == LastWas("tick") /\ last.val.state = "Running"

\* C21 as stated: a tick while Running invokes step() exactly once, every
\* other iteration invokes none, so the generation changes by 0 or 1 per
\* iteration of the main loop and never while the state is not Running.
C21_GenerationChangesByStepOnly ==
    last.some =>
        /\ nsteps - last.val.nsteps = (IF RunningTick THEN 1 ELSE 0)
        /\ generation - last.val.generation \in {0, 1}
        /\ last.val.state # "Running" => generation = last.val.generation

\* C21, amended: a tick while Running invokes step() exactly once and every
\* other iteration invokes none; the generation is changed by that step()
\* call, which counts one more, and by the reset key 'r', which sets it to 0
\* in any state, and by nothing else.
C21_StepOnRunningTickOnly ==
    last.some =>
        /\ nsteps - last.val.nsteps = (IF RunningTick THEN 1 ELSE 0)
        /\ generation = (CASE RunningTick  -> (last.val.generation + 1) % (U32Max + 1)
                           [] LastKey("r") -> 0
                           [] OTHER        -> last.val.generation)

\* Two ticks in a row while Running: two generations counted.
C21_Witness ==
    /\ RunningTick
    /\ prev.some
    /\ prev.val.op = "tick"
    /\ prev.val.state = "Running"
    /\ generation = 2
    /\ nsteps = 2

\* C29: the state starts as Stopped; the toggle maps Stopped and Paused to
\* Running and Running to Paused, never to Stopped: a state that was not
\* Stopped is Stopped again only by the reset key; two toggles in a row from
\* Running or Paused give the same state again.
C29_ToggleNeverStops ==
    /\ nops = 0 => app.val.state = "Stopped"
    /\ LastKey(" ") =>
          /\ app.val.state = (IF last.val.state = "Running" THEN "Paused" ELSE "Running")
          /\ app.val.state # "Stopped"
    /\ (last.some /\ last.val.state # "Stopped" /\ app.val.state = "Stopped") => LastKey("r")
    /\ (LastKey(" ") /\ prev.some /\ prev.val.op = "key" /\ prev.val.key = " "
            /\ prev.val.state \in {"Running", "Paused"}) => app.val.state = prev.val.state

\* Two toggles in a row from Paused, back to Paused.
C29_Witness ==
    /\ LastKey(" ")
    /\ prev.some
    /\ prev.val.op = "key"
    /\ prev.val.key = " "
    /\ prev.val.state = "Paused"
    /\ app.val.state = "Paused"

\* C28: the generation is reset only by explicit reinitialisation: no
\* step() call and no board_from_str call sets it back, and the reset key
\* 'r', in any state, sets the state to Stopped, the board to the parsed
\* initial pattern, the generation to 0 and the view origin to (0,0): the
\* board and the generation are those right after start-up.
C28_GenerationResetOnlyByReset ==
    /\ (AfterStep /\ LastWas("step")) => generation >= last.val.generation
    /\ LastWas("tick") => generation >= last.val.generation
    /\ LastWas("board_from_str") => generation = last.val.game.generation
    /\ LastKey("r") =>
          /\ app.val.state = "Stopped"
          /\ app.val.origin = Point(0, 0)
          /\ board = BoardFromStr(init_board).board
          /\ board = origin
          /\ generation = 0

\* C30: in Program::run, under every interleaving of the event loop and the
\* producer thread, the producer sends no event once the Receiver of the
\* Listener is dropped, so its send(..).unwrap() never fails, and it sends
\* no event after kill().
C30_NoSendAfterReceiverDropped ==
    LastWas("send") => (last.val.receiver /\ last.val.running)

\* An Exit command, alone or as an element of a Chain.
HasExit(cmd) ==
    /\ cmd.some
    /\ \/ cmd.val = Exit
       \/ cmd.val.cmd = "Chain" /\ \E i \in DOMAIN cmd.val.cmds : cmd.val.cmds[i] = Exit

\* C31: once the model's update or view has returned an Exit command, alone
\* or as an element of a Chain, the event loop is over: it receives and
\* processes no further event, and after an Exit returned by update the
\* view of that event is not drawn.
C31_ExitEndsLoop ==
    (prev.some /\ prev.val.op \in {"update", "view"} /\ HasExit(prev.val.cmd))
        => loop \in {"return", "kill", "returned"}

====
